---- MODULE Spec2Model ----
(***************************************************************************)
(* rust-json-parser: the tokenizer (tokenizer.rs), the recursive-descent   *)
(* parser (parser.rs) and the compact serializer (value.rs).               *)
(*                                                                         *)
(* Text is a sequence of bytes (the UTF-8 form of a &str); a String is a   *)
(* sequence of Unicode code points.  A token or a JsonValue is a record    *)
(* [t, v]: t is the variant, v its payload.  A Number payload is the pair  *)
(* <<m, e>> standing for m * 10^e, with m not divisible by 10.  `source`   *)
(* is the JsonValue whose serialization the input is, when it is one.      *)
(***************************************************************************)
EXTENDS Integers, Sequences, FiniteSets, TLC

VARIABLES source, input, tcur, mode, start, buf, tokens,
          phase, current, stack, result, value, err

vars == <<source, input, tcur, mode, start, buf, tokens,
          phase, current, stack, result, value, err>>

tokVars == <<source, input, tcur, mode, start, buf, tokens>>
parVars == <<current, stack, value>>

-----------------------------------------------------------------------------
(* Characters named by the source.                                         *)

QUOTE == 34
BACKSLASH == 92
SLASH == 47
SPACE == 32
NEWLINE == 10
TAB == 9
CR == 13
BACKSPACE == 8
FORMFEED == 12
LBRACE == 123
RBRACE == 125
LBRACKET == 91
RBRACKET == 93
COMMA == 44
COLON == 58
DOT == 46
MINUS == 45
PLUS == 43
CH_0 == 48
CH_1 == 49
CH_5 == 53
CH_8 == 56
CH_E == 69
CH_G == 71
CH_a == 97
CH_b == 98
CH_e == 101
CH_f == 102
CH_l == 108
CH_n == 110
CH_q == 113
CH_r == 114
CH_s == 115
CH_t == 116
CH_u == 117
AT_SIGN == 64

-----------------------------------------------------------------------------
(* Generic helpers.                                                        *)

RECURSIVE Flatten(_)
Flatten(ss) == IF ss = <<>> THEN <<>> ELSE Head(ss) \o Flatten(Tail(ss))

RECURSIVE SeqsUpTo(_, _)
SeqsUpTo(S, n) ==
    IF n = 0 THEN {<<>>}
    ELSE LET shorter == SeqsUpTo(S, n - 1)
         IN  shorter \cup {Append(s, x) : s \in {q \in shorter : Len(q) = n - 1}, x \in S}

RECURSIVE Pow10(_)
Pow10(n) == IF n = 0 THEN 1 ELSE 10 * Pow10(n - 1)

Abs(n) == IF n < 0 THEN -n ELSE n

-----------------------------------------------------------------------------
(* UTF-8: a &str is held as bytes, a char is a code point.                 *)

Utf8Char(cp) ==
    IF cp < 128 THEN <<cp>>
    ELSE IF cp < 2048 THEN <<192 + (cp \div 64), 128 + (cp % 64)>>
    ELSE <<224 + (cp \div 4096), 128 + ((cp \div 64) % 64), 128 + (cp % 64)>>

RECURSIVE Utf8(_)
Utf8(s) == IF s = <<>> THEN <<>> ELSE Utf8Char(Head(s)) \o Utf8(Tail(s))

\* chars of a byte slice that starts and ends on character boundaries
RECURSIVE Utf8Decode(_)
Utf8Decode(bs) ==
    IF bs = <<>> THEN <<>>
    ELSE IF bs[1] < 128 THEN <<bs[1]>> \o Utf8Decode(SubSeq(bs, 2, Len(bs)))
    ELSE IF bs[1] < 224
         THEN <<(bs[1] - 192) * 64 + (bs[2] - 128)>> \o Utf8Decode(SubSeq(bs, 3, Len(bs)))
    ELSE <<(bs[1] - 224) * 4096 + (bs[2] - 128) * 64 + (bs[3] - 128)>>
             \o Utf8Decode(SubSeq(bs, 4, Len(bs)))

\* str::is_char_boundary for a byte offset i (0-based) of text bs
is_char_boundary(bs, i) ==
    \/ i = 0
    \/ i = Len(bs)
    \/ (i < Len(bs) /\ ~(bs[i + 1] >= 128 /\ bs[i + 1] < 192))

\* bytes [a, b) of the text, offsets 0-based
Slice(bs, a, b) == SubSeq(bs, a + 1, b)

input_slice_to_string(bs, a, b) == Utf8Decode(Slice(bs, a, b))

is_ascii_digit(c) == c >= 48 /\ c <= 57
is_ascii_alphabetic(c) == (c >= 65 /\ c <= 90) \/ (c >= 97 /\ c <= 122)
is_ascii_punctuation_or_above(c) == (c >= 33 /\ c <= 47) \/ c >= 58
is_ascii_punctuation(c) ==
    \/ (c >= 33 /\ c <= 47)
    \/ (c >= 58 /\ c <= 64)
    \/ (c >= 91 /\ c <= 96)
    \/ (c >= 123 /\ c <= 126)
is_hex_digit(c) == is_ascii_digit(c) \/ (c >= 65 /\ c <= 70) \/ (c >= 97 /\ c <= 102)
hex_value(c) == IF is_ascii_digit(c) THEN c - 48
                ELSE IF c >= 97 THEN c - 87 ELSE c - 55

-----------------------------------------------------------------------------
(* Tokens, values and errors.                                              *)

Tok(t, v) == [t |-> t, v |-> v]
StringTok(s) == Tok("String", s)
NumberTok(n) == Tok("Number", n)
BooleanTok(b) == Tok("Boolean", <<IF b THEN 1 ELSE 0>>)
NullTok == Tok("Null", <<>>)
LeftBracket == Tok("LeftBracket", <<>>)
RightBracket == Tok("RightBracket", <<>>)
LeftBrace == Tok("LeftBrace", <<>>)
RightBrace == Tok("RightBrace", <<>>)
Colon == Tok("Colon", <<>>)
Comma == Tok("Comma", <<>>)

JString(s) == [t |-> "String", v |-> s]
JNumber(n) == [t |-> "Number", v |-> n]
JBoolean(b) == [t |-> "Boolean", v |-> <<IF b THEN 1 ELSE 0>>]
JNull == [t |-> "Null", v |-> <<>>]
JArray(items) == [t |-> "Array", v |-> items]
JObject(map) == [t |-> "Object", v |-> map]

EmptyMap == <<>>
\* HashMap::insert: a present key is overwritten
MapInsert(map, k, v) ==
    [x \in (DOMAIN map) \cup {k} |-> IF x = k THEN v ELSE map[x]]

NoValue == [t |-> "None", v |-> <<>>]

JsonError(kind, expected, found, position) ==
    [kind |-> kind, expected |-> expected, found |-> found, position |-> position]
NoError == JsonError("None", "", <<>>, 0)
unexpected_token_error(expected, found, position) ==
    JsonError("UnexpectedToken", expected, found, position)
\* an end of input reported as a token error
unexpected_end_of_input_as_token(expected, position) ==
    JsonError("UnexpectedToken", expected, <<>>, position)
unexpected_end_of_input(expected, position) ==
    JsonError("UnexpectedEndOfInput", expected, <<>>, position)

-----------------------------------------------------------------------------
(* Numbers: str::parse::<f64> and the Display of f64, on decimal literals.  *)
(* Within the literals the model draws (few digits, small exponents)       *)
(* distinct decimals are distinct doubles, so <<m, e>> is exact.           *)

RECURSIVE Normalize(_, _)
Normalize(m, e) ==
    IF m = 0 THEN <<0, 0>>
    ELSE IF m % 10 = 0 THEN Normalize(m \div 10, e + 1)
    ELSE <<m, e>>

\* first position >= i of s that holds no ASCII digit (Len(s) + 1 when none)
DigitsEnd(s, i) ==
    LET stops == {j \in i..(Len(s) + 1) : j = Len(s) + 1 \/ ~is_ascii_digit(s[j])}
    IN  CHOOSE j \in stops : \A k \in stops : j <= k

RECURSIVE DigitsValue(_, _, _)
DigitsValue(s, a, b) ==
    IF a >= b THEN 0 ELSE DigitsValue(s, a, b - 1) * 10 + (s[b - 1] - 48)

\* [ok, n]: the grammar of core::num::dec2flt,
\*   [sign] (digits ['.' digits] | '.' digits) [(e|E) [sign] digits]
parse_f64(s) ==
    LET n      == Len(s)
        hasSgn == n >= 1 /\ s[1] \in {PLUS, MINUS}
        neg    == hasSgn /\ s[1] = MINUS
        p1     == IF hasSgn THEN 2 ELSE 1
        p2     == DigitsEnd(s, p1)
        hasDot == p2 <= n /\ s[p2] = DOT
        p3     == IF hasDot THEN p2 + 1 ELSE p2
        p4     == IF hasDot THEN DigitsEnd(s, p3) ELSE p2
        hasExp == p4 <= n /\ s[p4] \in {CH_e, CH_E}
        p5     == p4 + 1
        expSgn == hasExp /\ p5 <= n /\ s[p5] \in {PLUS, MINUS}
        expNeg == expSgn /\ s[p5] = MINUS
        p6     == IF expSgn THEN p5 + 1 ELSE p5
        p7     == IF hasExp THEN DigitsEnd(s, p6) ELSE p4
        ok     == /\ (p2 - p1) + (p4 - p3) >= 1
                  /\ IF hasExp THEN p7 > p6 /\ p7 = n + 1 ELSE p4 = n + 1
        mant   == DigitsValue(s, p1, p2) * Pow10(p4 - p3) + DigitsValue(s, p3, p4)
        expv   == IF hasExp THEN DigitsValue(s, p6, p7) ELSE 0
        exp    == (IF expNeg THEN -expv ELSE expv) - (p4 - p3)
    IN  IF ok THEN [ok |-> TRUE, n |-> Normalize(IF neg THEN -mant ELSE mant, exp)]
        ELSE [ok |-> FALSE, n |-> <<0, 0>>]

RECURSIVE Digits(_)
Digits(n) == IF n < 10 THEN <<48 + n>> ELSE Append(Digits(n \div 10), 48 + (n % 10))

Zeros(k) == [i \in 1..k |-> CH_0]

\* f64::to_json_string: both branches print with "{}", which never uses an
\* exponent and prints no ".0" for an integral value
f64_to_json_string(num) ==
    LET m  == num[1]
        e  == num[2]
        d  == Digits(Abs(m))
        sg == IF m < 0 THEN <<MINUS>> ELSE <<>>
    IN  IF e >= 0 THEN sg \o d \o Zeros(e)
        ELSE IF Len(d) > -e
             THEN sg \o SubSeq(d, 1, Len(d) + e) \o <<DOT>> \o SubSeq(d, Len(d) + e + 1, Len(d))
        ELSE sg \o <<CH_0, DOT>> \o Zeros((-e) - Len(d)) \o d

-----------------------------------------------------------------------------
(* Tokenizer (tokenizer.rs).                                                *)

None == -1

\* Tokenizer::peek: the byte at the cursor
tpeek == IF tcur < Len(input) THEN input[tcur + 1] ELSE None

resolve_escape_sequence(c) ==
    IF c = CH_n THEN NEWLINE
    ELSE IF c = CH_t THEN TAB
    ELSE IF c = CH_r THEN CR
    ELSE IF c = BACKSLASH THEN BACKSLASH
    ELSE IF c = QUOTE THEN QUOTE
    ELSE IF c = SLASH THEN SLASH
    ELSE IF c = CH_b THEN BACKSPACE
    ELSE IF c = CH_f THEN FORMFEED
    ELSE None

\* u32::from_str_radix(s, 16): one leading '+' is skipped, then hex digits only
from_str_radix_16(s) ==
    LET digits == IF Len(s) >= 1 /\ s[1] = PLUS THEN Tail(s) ELSE s
        RECURSIVE Val(_)
        Val(ds) == IF ds = <<>> THEN 0 ELSE Val(SubSeq(ds, 1, Len(ds) - 1)) * 16 + hex_value(ds[Len(ds)])
    IN  IF digits = <<>> \/ \E i \in 1..Len(digits) : ~is_hex_digit(digits[i])
        THEN None
        ELSE Val(digits)

\* char::from_u32: every code point but the surrogates
char_from_u32(n) == IF n < 0 \/ (n >= 55296 /\ n <= 57343) \/ n > 1114111 THEN None ELSE n

parse_unicode_hex(s) ==
    IF Len(s) # 4 THEN None ELSE char_from_u32(from_str_radix_16(s))

TokFail(e) ==
    /\ result' = "Err"
    /\ err' = e
    /\ UNCHANGED <<phase, parVars>>

TokGoOn == UNCHANGED <<phase, parVars, result, err>>

Tokenizing(m) == phase = "tokenize" /\ result = "none" /\ mode = m

\* tokenize: b' ' | b'\n' | b'\t' | b'\r'
tokenize_whitespace ==
    /\ Tokenizing("top")
    /\ tpeek \in {SPACE, NEWLINE, TAB, CR}
    /\ tcur' = tcur + 1
    /\ UNCHANGED <<source, input, mode, start, buf, tokens>>
    /\ TokGoOn

\* tokenize: b'"', the opening quote; consume_string starts at the next byte
tokenize_quote ==
    /\ Tokenizing("top")
    /\ tpeek = QUOTE
    /\ tcur' = tcur + 1
    /\ start' = tcur + 1
    /\ mode' = "fast"
    /\ UNCHANGED <<source, input, buf, tokens>>
    /\ TokGoOn

\* consume_string, fast path
consume_string_quote ==
    /\ Tokenizing("fast")
    /\ tpeek = QUOTE
    /\ tokens' = Append(tokens, StringTok(input_slice_to_string(input, start, tcur)))
    /\ tcur' = tcur + 1
    /\ mode' = "top"
    /\ UNCHANGED <<source, input, start, buf>>
    /\ TokGoOn

consume_string_backslash ==
    /\ Tokenizing("fast")
    /\ tpeek = BACKSLASH
    /\ buf' = input_slice_to_string(input, start, tcur)
    /\ mode' = "slow"
    /\ UNCHANGED <<source, input, tcur, start, tokens>>
    /\ TokGoOn

consume_string_other ==
    /\ Tokenizing("fast")
    /\ tpeek \notin {QUOTE, BACKSLASH, None}
    /\ tcur' = tcur + 1
    /\ UNCHANGED <<source, input, mode, start, buf, tokens>>
    /\ TokGoOn

consume_string_end ==
    /\ Tokenizing("fast")
    /\ tpeek = None
    /\ UNCHANGED tokVars
    /\ TokFail(unexpected_end_of_input("Closing quote", tcur))

\* consume_string_slow
slow_quote ==
    /\ Tokenizing("slow")
    /\ tpeek = QUOTE
    /\ tokens' = Append(tokens, StringTok(buf))
    /\ buf' = <<>>
    /\ tcur' = tcur + 1
    /\ mode' = "top"
    /\ UNCHANGED <<source, input, start>>
    /\ TokGoOn

\* the byte a char-by-char copy of the slow path appends for input byte b
slow_push(b) == b

slow_other ==
    /\ Tokenizing("slow")
    /\ tpeek \notin {QUOTE, BACKSLASH, None}
    /\ buf' = Append(buf, slow_push(tpeek))
    /\ tcur' = tcur + 1
    /\ UNCHANGED <<source, input, mode, start, tokens>>
    /\ TokGoOn

slow_end ==
    /\ Tokenizing("slow")
    /\ tpeek = None
    /\ UNCHANGED tokVars
    /\ TokFail(unexpected_end_of_input("Closing quote", tcur))

\* consume_string_slow, b'\\' branch with no byte after the backslash
slow_escape_end ==
    /\ Tokenizing("slow")
    /\ tpeek = BACKSLASH
    /\ tcur + 1 >= Len(input)
    /\ tcur' = tcur + 1
    /\ UNCHANGED <<source, input, mode, start, buf, tokens>>
    /\ TokFail(unexpected_end_of_input("Special meaning char for escape sequence", tcur + 1))

\* consume_string_slow, b'\\' branch, special_meaning # b'u'
slow_escape ==
    /\ Tokenizing("slow")
    /\ tpeek = BACKSLASH
    /\ tcur + 1 < Len(input)
    /\ LET special_meaning == input[tcur + 2]
           ch == resolve_escape_sequence(special_meaning)
       IN  /\ special_meaning # CH_u
           /\ tcur' = tcur + 2
           /\ UNCHANGED <<source, input, mode, start, tokens>>
           /\ IF ch = None
              THEN /\ buf' = buf
                   /\ TokFail(JsonError("InvalidEscape", "", <<special_meaning>>, tcur + 2))
              ELSE /\ buf' = Append(buf, ch)
                   /\ TokGoOn

\* consume_string_slow, b'\\' branch, special_meaning = b'u'
slow_unicode ==
    /\ Tokenizing("slow")
    /\ tpeek = BACKSLASH
    /\ tcur + 1 < Len(input)
    /\ input[tcur + 2] = CH_u
    /\ LET hex_start == tcur + 2
           hex_str   == Slice(input, hex_start, hex_start + 4)
           ch        == parse_unicode_hex(hex_str)
       IN  /\ UNCHANGED <<source, input, mode, start, tokens>>
           /\ IF hex_start + 4 > Len(input)
              THEN /\ tcur' = hex_start
                   /\ buf' = buf
                   /\ TokFail(JsonError("InvalidUnicode", "",
                                  <<BACKSLASH, CH_u>> \o Utf8Decode(Slice(input, hex_start, Len(input))),
                                  hex_start))
              ELSE IF ~is_char_boundary(input, hex_start + 4)
              THEN \* &self.input[hex_start..hex_start + 4] panics
                   /\ tcur' = hex_start
                   /\ buf' = buf
                   /\ result' = "Panic"
                   /\ UNCHANGED <<phase, parVars, err>>
              ELSE IF ch = None
              THEN /\ tcur' = hex_start
                   /\ buf' = buf
                   /\ TokFail(JsonError("InvalidUnicode", "",
                                  <<BACKSLASH, CH_u>> \o Utf8Decode(hex_str), hex_start))
              ELSE /\ tcur' = hex_start + 4
                   /\ buf' = Append(buf, ch)
                   /\ TokGoOn

\* tokenize: the six one-byte structural tokens
structural_token(c) ==
    IF c = LBRACE THEN LeftBrace
    ELSE IF c = RBRACE THEN RightBrace
    ELSE IF c = LBRACKET THEN LeftBracket
    ELSE IF c = RBRACKET THEN RightBracket
    ELSE IF c = COMMA THEN Comma
    ELSE Colon

tokenize_structural ==
    /\ Tokenizing("top")
    /\ tpeek \in {LBRACE, RBRACE, LBRACKET, RBRACKET, COMMA, COLON}
    /\ tokens' = Append(tokens, structural_token(tpeek))
    /\ tcur' = tcur + 1
    /\ UNCHANGED <<source, input, mode, start, buf>>
    /\ TokGoOn

\* consume_number: the byte belongs to the run
is_number_byte_unsigned(c) == is_ascii_digit(c) \/ c \in {DOT, CH_e, CH_E}
is_number_byte(c) == is_ascii_digit(c) \/ c \in {DOT, MINUS, CH_e, CH_E, PLUS}

\* a cursor that steps back before a run of number bytes
RunEndOrBack(bs, a, S) ==
    IF a > 0 /\ MINUS \in S THEN a - 1
    ELSE LET stops == {j \in a..Len(bs) : j = Len(bs) \/ bs[j + 1] \notin S}
         IN  CHOOSE j \in stops : \A k \in stops : j <= k

\* offset just past the maximal run of bytes of the set S that starts at offset a
RunEnd(bs, a, S) ==
    LET stops == {j \in a..Len(bs) : j = Len(bs) \/ bs[j + 1] \notin S}
    IN  CHOOSE j \in stops : \A k \in stops : j <= k

\* tokenize: b'0'..=b'9' | b'-', then consume_number
tokenize_number ==
    /\ Tokenizing("top")
    /\ tpeek # None
    /\ is_ascii_digit(tpeek) \/ tpeek = MINUS
    /\ LET end    == RunEnd(input, tcur, {c \in 0..255 : is_number_byte(c)})
           slice  == Slice(input, tcur, end)
           number == parse_f64(slice)
       IN  /\ tcur' = end
           /\ UNCHANGED <<source, input, mode, start, buf>>
           /\ IF number.ok
              THEN /\ tokens' = Append(tokens, NumberTok(number.n))
                   /\ TokGoOn
              ELSE /\ tokens' = tokens
                   /\ TokFail(JsonError("InvalidNumber", "", slice, end))

keyword_token_by_first_letter(slice) ==
    IF slice[1] = CH_t THEN BooleanTok(TRUE)
    ELSE IF slice[1] = CH_f THEN BooleanTok(FALSE)
    ELSE IF slice[1] = CH_n THEN NullTok
    ELSE NoValue

\* consume_keyword: the token of the run, or None
keyword_token(slice) ==
    IF slice = <<CH_t, CH_r, CH_u, CH_e>> THEN BooleanTok(TRUE)
    ELSE IF slice = <<CH_f, CH_a, CH_l, CH_s, CH_e>> THEN BooleanTok(FALSE)
    ELSE IF slice = <<CH_n, CH_u, CH_l, CH_l>> THEN NullTok
    ELSE NoValue

\* tokenize: an ASCII letter, then consume_keyword
tokenize_keyword ==
    /\ Tokenizing("top")
    /\ tpeek # None
    /\ is_ascii_alphabetic(tpeek)
    /\ LET end   == RunEnd(input, tcur, {c \in 0..255 : is_ascii_alphabetic(c)})
           slice == Slice(input, tcur, end)
           token == keyword_token(slice)
       IN  /\ tcur' = end
           /\ UNCHANGED <<source, input, mode, start, buf>>
           /\ IF token # NoValue
              THEN /\ tokens' = Append(tokens, token)
                   /\ TokGoOn
              ELSE /\ tokens' = tokens
                   /\ TokFail(unexpected_token_error("Valid JSON value", <<slice[1]>>, 0))

TopOther(c) ==
    /\ c # None
    /\ c \notin {SPACE, NEWLINE, TAB, CR, QUOTE, MINUS,
                 LBRACE, RBRACE, LBRACKET, RBRACKET, COMMA, COLON}
    /\ ~is_ascii_digit(c)
    /\ ~is_ascii_alphabetic(c)

\* tokenize: the `_` arm on an ASCII punctuation byte
tokenize_punctuation ==
    /\ Tokenizing("top")
    /\ TopOther(tpeek)
    /\ is_ascii_punctuation(tpeek)
    /\ UNCHANGED tokVars
    /\ TokFail(unexpected_token_error("Valid JSON value", <<tpeek>>, 0))

\* tokenize: the `_` arm on any other byte
tokenize_skip ==
    /\ Tokenizing("top")
    /\ TopOther(tpeek)
    /\ ~is_ascii_punctuation(tpeek)
    /\ tcur' = tcur + 1
    /\ UNCHANGED <<source, input, mode, start, buf, tokens>>
    /\ TokGoOn

\* tokenize: the loop ends, Ok(tokens)
tokenize_end ==
    /\ Tokenizing("top")
    /\ tpeek = None
    /\ phase' = "tokenized"
    /\ UNCHANGED <<tokVars, parVars, result, err>>

NextTok ==
    \/ tokenize_whitespace
    \/ tokenize_quote
    \/ tokenize_number
    \/ tokenize_structural
    \/ tokenize_keyword
    \/ tokenize_punctuation
    \/ tokenize_skip
    \/ tokenize_end
    \/ consume_string_quote
    \/ consume_string_backslash
    \/ consume_string_other
    \/ consume_string_end
    \/ slow_quote
    \/ slow_other
    \/ slow_end
    \/ slow_escape_end
    \/ slow_escape
    \/ slow_unicode

-----------------------------------------------------------------------------
(* Parser (parser.rs).  The call stack of parse_array / parse_object is the *)
(* sequence `stack` of frames, innermost last; a frame holds the locals of  *)
(* one call.                                                                *)

Frame(kind) ==
    [kind |-> kind, array |-> <<>>, object |-> EmptyMap, key |-> <<>>,
     colon_found |-> FALSE, expect_comma |-> FALSE]

Top == stack[Len(stack)]

\* JsonParser::peek
ppeek == IF current < Len(tokens) THEN tokens[current + 1] ELSE NoValue

\* JsonParser::get_token
get_token(index) == IF index < Len(tokens) THEN tokens[index + 1] ELSE NoValue

IsScalar(token) == token.t \in {"String", "Number", "Boolean", "Null"}

\* the JsonValue a scalar token becomes
scalar_value(token) == [t |-> token.t, v |-> token.v]

\* a check that never asks for the comma
err_on_missing_expected_comma_never(expected_comma) == FALSE

\* the utility functions: TRUE when they return Err
err_on_missing_expected_comma(expected_comma) == expected_comma

err_on_unexpected_value_before_colon(colon_found) == ~colon_found

err_on_unexpected_comma(expected_comma) == ~expected_comma

\* a check that lets the closing token through
err_on_unexpected_closing_token_never(token, expected_token) == FALSE

err_on_unexpected_closing_token(token, expected_token) == token.t = expected_token.t

\* a look-ahead that takes every string for a key
next_token_is_expected_colon_unchecked(colon_found, next_token) ==
    IF colon_found THEN "value" ELSE "key"

\* "key", "value" or "err"
next_token_is_expected_colon(colon_found, next_token) ==
    IF colon_found THEN "value"
    ELSE IF next_token # Colon THEN "err"
    ELSE "key"

\* a push that puts the new element first
array_push_front(array, v) == <<v>> \o array

\* Vec::push
array_push(array, v) == Append(array, v)

\* an insert that keeps the entry a key already has
object_insert_keep_first(object, key, v) ==
    IF key \in DOMAIN object THEN object ELSE MapInsert(object, key, v)

\* object.insert(key.clone(), v)
object_insert(object, key, v) == MapInsert(object, key, v)

Parsing == phase = "parse" /\ result = "none"
InArray == Parsing /\ stack # <<>> /\ Top.kind = "array"
InObject == Parsing /\ stack # <<>> /\ Top.kind = "object"

ParseFail(e) ==
    /\ result' = "Err"
    /\ err' = e
    /\ UNCHANGED <<tokVars, phase, stack, value>>

SetTop(f) == [stack EXCEPT ![Len(stack)] = f]

\* the caller's frame after the nested call returned v
Receive(f, v) ==
    IF f.kind = "array"
    THEN [f EXCEPT !.array = array_push(f.array, v), !.expect_comma = TRUE]
    ELSE [f EXCEPT !.object = object_insert(f.object, f.key, v),
                   !.colon_found = FALSE, !.expect_comma = TRUE]

\* the innermost call returns Ok(v)
Return(v) ==
    IF Len(stack) = 1
    THEN /\ stack' = <<>>
         /\ result' = "Ok"
         /\ value' = v
         /\ UNCHANGED <<tokVars, phase, err>>
    ELSE /\ stack' = [SubSeq(stack, 1, Len(stack) - 1)
                         EXCEPT ![Len(stack) - 1] = Receive(stack[Len(stack) - 1], v)]
         /\ UNCHANGED <<tokVars, phase, result, value, err>>

\* a nested parse_array / parse_object is called and consumes its opening token
Call(kind) ==
    /\ stack' = Append(stack, Frame(kind))
    /\ current' = current + 1
    /\ UNCHANGED <<tokVars, phase, result, value, err>>

\* a parser that starts on the tokens scanned so far
new_parser_early ==
    /\ phase = "tokenize"
    /\ mode = "top"
    /\ result = "none"
    /\ phase' = "parse"
    /\ current' = 0
    /\ UNCHANGED <<tokVars, stack, result, value, err>>

\* JsonParser::new after tokenize returned Ok(tokens)
new_parser ==
    /\ phase = "tokenized"
    /\ result = "none"
    /\ phase' = "parse"
    /\ current' = 0
    /\ UNCHANGED <<tokVars, stack, result, value, err>>

AtEntry == Parsing /\ stack = <<>>

\* parse: Some(Token::LeftBrace)
parse_left_brace ==
    /\ AtEntry
    /\ ppeek = LeftBrace
    /\ Call("object")

\* parse: Some(Token::LeftBracket)
parse_left_bracket ==
    /\ AtEntry
    /\ ppeek = LeftBracket
    /\ Call("array")

\* parse: Some(_), parse_primitive
parse_primitive ==
    /\ AtEntry
    /\ ppeek \notin {LeftBrace, LeftBracket, NoValue}
    /\ UNCHANGED current
    /\ IF IsScalar(ppeek)
       THEN /\ result' = "Ok"
            /\ value' = scalar_value(ppeek)
            /\ UNCHANGED <<tokVars, phase, stack, err>>
       ELSE ParseFail(unexpected_token_error("string", ppeek, current))

\* parse: None
parse_none ==
    /\ AtEntry
    /\ ppeek = NoValue
    /\ UNCHANGED current
    /\ ParseFail(unexpected_end_of_input("string", current))

\* parse_array: Token::LeftBracket
array_left_bracket ==
    /\ InArray
    /\ ppeek = LeftBracket
    /\ IF err_on_missing_expected_comma(Top.expect_comma)
       THEN /\ UNCHANGED current
            /\ ParseFail(unexpected_token_error(",", ppeek, current))
       ELSE Call("array")

\* parse_array: Token::LeftBrace
array_left_brace ==
    /\ InArray
    /\ ppeek = LeftBrace
    /\ IF err_on_missing_expected_comma(Top.expect_comma)
       THEN /\ UNCHANGED current
            /\ ParseFail(unexpected_token_error(",", ppeek, current))
       ELSE Call("object")

\* parse_array: Token::RightBracket
array_right_bracket ==
    /\ InArray
    /\ ppeek = RightBracket
    /\ current' = current + 1
    /\ Return(JArray(Top.array))

\* parse_array: Token::String, Token::Number, Token::Boolean, Token::Null
array_scalar ==
    /\ InArray
    /\ IsScalar(ppeek)
    /\ IF err_on_missing_expected_comma(Top.expect_comma)
       THEN /\ UNCHANGED current
            /\ ParseFail(unexpected_token_error(",", ppeek, current))
       ELSE /\ stack' = SetTop([Top EXCEPT !.array = array_push(Top.array, scalar_value(ppeek)),
                                           !.expect_comma = TRUE])
            /\ current' = current + 1
            /\ UNCHANGED <<tokVars, phase, result, value, err>>

\* the Token::Comma branch of parse_array (closing = RightBracket) and of
\* parse_object (closing = RightBrace)
comma_branch(closing, expected_at_comma, expected_at_close, found_close) ==
    /\ current' = current + 1
    /\ LET token == get_token(current + 1)
       IN  IF current + 1 >= Len(tokens)
           THEN ParseFail(unexpected_end_of_input("string, bool, number or object", current + 1))
           ELSE IF err_on_unexpected_comma(Top.expect_comma)
           THEN ParseFail(unexpected_token_error(expected_at_comma, <<COMMA>>, current + 1))
           ELSE IF err_on_unexpected_closing_token(token, closing)
           THEN ParseFail(unexpected_token_error(expected_at_close, found_close, current + 1))
           ELSE /\ stack' = SetTop([Top EXCEPT !.expect_comma = FALSE])
                /\ UNCHANGED <<tokVars, phase, result, value, err>>

\* parse_array: Token::Comma
array_comma ==
    /\ InArray
    /\ ppeek = Comma
    /\ comma_branch(RightBracket, "closing bracket", "string, bool, number or object", <<RBRACKET>>)

\* parse_array: `_` (Colon, RightBrace)
array_other ==
    /\ InArray
    /\ ppeek \in {Colon, RightBrace}
    /\ UNCHANGED current
    /\ ParseFail(unexpected_token_error("valid JSON value", ppeek, current))

\* parse_array: the loop ends
array_end ==
    /\ InArray
    /\ ppeek = NoValue
    /\ UNCHANGED current
    /\ ParseFail(unexpected_end_of_input("closing bracket", current))

\* parse_object: Token::LeftBrace and Token::LeftBracket share this shape
object_nested(kind) ==
    IF err_on_missing_expected_comma(Top.expect_comma)
    THEN /\ UNCHANGED current
         /\ ParseFail(unexpected_token_error(",", ppeek, current))
    ELSE IF Top.colon_found
    THEN Call(kind)
    ELSE \* the branch ends without consuming the token: the loop peeks it again
         UNCHANGED vars

\* parse_object: Token::LeftBrace
object_left_brace ==
    /\ InObject
    /\ ppeek = LeftBrace
    /\ object_nested("object")

\* parse_object: Token::LeftBracket
object_left_bracket ==
    /\ InObject
    /\ ppeek = LeftBracket
    /\ object_nested("array")

\* parse_object: Token::RightBrace
object_right_brace ==
    /\ InObject
    /\ ppeek = RightBrace
    /\ current' = current + 1
    /\ Return(JObject(Top.object))

\* the frame after `object.insert(key.clone(), v)` and the two flag updates
Inserted(f, v) ==
    [f EXCEPT !.object = object_insert(f.object, f.key, v),
              !.colon_found = FALSE, !.expect_comma = TRUE]

\* parse_object: Token::String
object_string ==
    /\ InObject
    /\ ppeek.t = "String"
    /\ LET next_token == get_token(current + 1)
           role == next_token_is_expected_colon(Top.colon_found, next_token)
       IN  IF err_on_missing_expected_comma(Top.expect_comma)
           THEN /\ UNCHANGED current
                /\ ParseFail(unexpected_token_error(",", ppeek, current))
           ELSE IF next_token = NoValue
           THEN /\ UNCHANGED current
                /\ ParseFail(unexpected_end_of_input(IF Top.colon_found THEN "," ELSE ":", current))
           ELSE IF role = "err"
           THEN /\ UNCHANGED current
                /\ ParseFail(unexpected_token_error(":", next_token, current))
           ELSE /\ stack' = SetTop(IF role = "key"
                                   THEN [Top EXCEPT !.key = ppeek.v]
                                   ELSE Inserted(Top, scalar_value(ppeek)))
                /\ current' = current + 1
                /\ UNCHANGED <<tokVars, phase, result, value, err>>

\* parse_object: Token::Number, Token::Boolean, Token::Null
object_scalar ==
    /\ InObject
    /\ ppeek.t \in {"Number", "Boolean", "Null"}
    /\ IF err_on_missing_expected_comma(Top.expect_comma)
       THEN /\ UNCHANGED current
            /\ ParseFail(unexpected_token_error(",", ppeek, current))
       ELSE IF err_on_unexpected_value_before_colon(Top.colon_found)
       THEN /\ UNCHANGED current
            /\ ParseFail(unexpected_token_error("string", ppeek, current))
       ELSE /\ stack' = SetTop(Inserted(Top, scalar_value(ppeek)))
            /\ current' = current + 1
            /\ UNCHANGED <<tokVars, phase, result, value, err>>

\* parse_object: Token::Colon
object_colon ==
    /\ InObject
    /\ ppeek = Colon
    /\ stack' = SetTop([Top EXCEPT !.colon_found = TRUE])
    /\ current' = current + 1
    /\ UNCHANGED <<tokVars, phase, result, value, err>>

\* parse_object: Token::Comma
object_comma ==
    /\ InObject
    /\ ppeek = Comma
    /\ comma_branch(RightBrace, "closing brace", "string", <<RBRACE>>)

\* parse_object: `_` (RightBracket)
object_other ==
    /\ InObject
    /\ ppeek = RightBracket
    /\ UNCHANGED current
    /\ ParseFail(unexpected_token_error("valid JSON value", ppeek, current))

\* parse_object: the loop ends
object_end ==
    /\ InObject
    /\ ppeek = NoValue
    /\ UNCHANGED current
    /\ ParseFail(unexpected_end_of_input("closing brace", current))

NextParse ==
    \/ parse_left_brace
    \/ parse_left_bracket
    \/ parse_primitive
    \/ parse_none
    \/ array_left_bracket
    \/ array_left_brace
    \/ array_right_bracket
    \/ array_scalar
    \/ array_comma
    \/ array_other
    \/ array_end
    \/ object_left_brace
    \/ object_left_bracket
    \/ object_right_brace
    \/ object_string
    \/ object_scalar
    \/ object_colon
    \/ object_comma
    \/ object_other
    \/ object_end

-----------------------------------------------------------------------------
(* Inputs of the tokenizer.                                                 *)

MaxPre == 1
MaxHex == 4
MaxPieces == 2

\* characters that may precede or follow an escape inside a literal
PlainChars == {CH_a, 233}

\* characters tried after a backslash
EscapeChars == {CH_n, CH_t, CH_r, BACKSLASH, QUOTE, SLASH, CH_b, CH_f, CH_q, CH_0, 233}

\* characters tried in the four places after a backslash-u
HexChars == {CH_0, CH_8, 68, PLUS, CH_G, 233}

StringTails == {<<>>, <<QUOTE>>, <<CH_a, QUOTE>>, <<233, QUOTE>>}

\* literals without an escape
PlainTexts ==
    {<<QUOTE>> \o pre \o tail : pre \in SeqsUpTo(PlainChars, MaxPre + 1), tail \in {<<>>, <<QUOTE>>}}

\* "pre \e tail
EscapeTexts ==
    {<<QUOTE>> \o pre \o <<BACKSLASH>> \o e \o tail :
        pre \in SeqsUpTo(PlainChars, MaxPre),
        e \in {<<c>> : c \in EscapeChars} \cup {<<>>},
        tail \in StringTails}

\* "pre \u hhhh tail
UnicodeText(pre, hex, tail) == <<QUOTE>> \o pre \o <<BACKSLASH, CH_u>> \o hex \o tail

Pieces ==
    { <<SPACE>>, <<LBRACKET>>, <<RBRACKET>>, <<LBRACE>>, <<RBRACE>>, <<COMMA>>, <<COLON>>,
      <<CH_1>>, <<MINUS>>, <<CH_1, DOT, CH_5>>, <<CH_t, CH_r, CH_u, CH_e>>,
      <<CH_n, CH_u, CH_l, CH_l>>, <<CH_f, CH_a, CH_l, CH_s, CH_e>>, <<CH_n, CH_u, CH_l>>,
      <<AT_SIGN>>, <<233>>, <<1>>, <<QUOTE, CH_a, QUOTE>>, <<84, CH_r, CH_u, CH_e>>,
      <<CH_1, CH_e>>, <<DOT, CH_5>> }

PieceTexts == {Flatten(ps) : ps \in SeqsUpTo(Pieces, MaxPieces)}

\* a control character or a non-ASCII character between and after tokens
StraySamples ==
    { <<LBRACKET, 1, RBRACKET>>,
      <<CH_1, 233, COMMA>>,
      <<CH_n, CH_u, CH_l, CH_l, 1, LBRACE>> }

InitText(text) ==
    /\ source = NoValue
    /\ input = text
    /\ tcur = 0
    /\ mode = "top"
    /\ start = 0
    /\ buf = <<>>
    /\ tokens = <<>>
    /\ phase = "tokenize"
    /\ current = 0
    /\ stack = <<>>
    /\ result = "none"
    /\ value = NoValue
    /\ err = NoError

InitTok ==
    \/ \E text \in PlainTexts \cup EscapeTexts \cup PieceTexts \cup StraySamples :
          InitText(Utf8(text))
    \/ \E pre \in SeqsUpTo(PlainChars, MaxPre), hex \in SeqsUpTo(HexChars, MaxHex),
          tail \in {<<>>, <<QUOTE>>} : InitText(Utf8(UnicodeText(pre, hex, tail)))

\* a few literals: an escape that is complete, one that is bad, literals cut short
LiteralSamples ==
    { <<QUOTE, BACKSLASH, CH_u, CH_0, CH_0, CH_0, CH_8, QUOTE>>,
      <<QUOTE, BACKSLASH, CH_u, CH_0, CH_0, CH_G, CH_G, QUOTE>>,
      <<QUOTE, BACKSLASH, CH_q, QUOTE>>,
      <<QUOTE, CH_a, BACKSLASH>>,
      <<QUOTE, BACKSLASH, CH_n>>,
      <<QUOTE, CH_a>> }

\* the texts made of whole tokens, and the samples
InitPieces == \E text \in PieceTexts \cup LiteralSamples \cup StraySamples : InitText(Utf8(text))

SpecTok == InitTok /\ [][NextTok]_vars

-----------------------------------------------------------------------------
(* Inputs of the parser: the token sequences JsonParser::new can hold.      *)

MaxTokens == 4
MaxDepth == 2

KeyA == <<CH_a>>
KeyB == <<CH_b>>

\* every sequence of at most MaxTokens of these tokens
RawTokens ==
    {LeftBrace, RightBrace, LeftBracket, RightBracket, Comma, Colon,
     StringTok(KeyA), NumberTok(<<1, 0>>)}

ScalarSeqs == {<<StringTok(KeyA)>>, <<NumberTok(<<1, 0>>)>>, <<BooleanTok(TRUE)>>, <<NullTok>>}

Member(k, x) == <<StringTok(k), Colon>> \o x

\* the scalars tried beside a nested value
PairSeqs == {<<StringTok(KeyA)>>, <<NullTok>>}

\* token sequences of JSON values nested at most d deep, with at most two
\* entries per container and distinct keys in every object
RECURSIVE ValidSeqs(_)
ValidSeqs(d) ==
    IF d = 0 THEN ScalarSeqs
    ELSE LET deep == ValidSeqs(d - 1)
             elems == {<<>>} \cup deep
                      \cup {x \o <<Comma>> \o y : x \in deep, y \in PairSeqs}
                      \cup {y \o <<Comma>> \o x : x \in deep, y \in PairSeqs}
             membs == {<<>>} \cup {Member(k, x) : k \in {KeyA, KeyB}, x \in deep}
                      \cup {Member(KeyA, x) \o <<Comma>> \o Member(KeyB, y) :
                               x \in deep, y \in PairSeqs}
                      \cup {Member(KeyA, y) \o <<Comma>> \o Member(KeyB, x) :
                               x \in deep, y \in PairSeqs}
         IN  ScalarSeqs
             \cup {<<LeftBracket>> \o b \o <<RightBracket>> : b \in elems}
             \cup {<<LeftBrace>> \o b \o <<RightBrace>> : b \in membs}

\* the short values tried as the other value of a repeated key
OtherSeqs == ScalarSeqs \cup {<<LeftBracket, RightBracket>>, <<LeftBrace, RightBrace>>}

\* the members of an object in which KeyA occurs twice
DupMembers(x, y, z) ==
    { Member(KeyA, x) \o <<Comma>> \o Member(KeyA, y),
      Member(KeyA, y) \o <<Comma>> \o Member(KeyA, x),
      Member(KeyA, x) \o <<Comma>> \o Member(KeyB, z) \o <<Comma>> \o Member(KeyA, y),
      Member(KeyB, z) \o <<Comma>> \o Member(KeyA, y) \o <<Comma>> \o Member(KeyA, x) }

\* ts with its i-th token taken out
TokenDropped(ts, i) == SubSeq(ts, 1, i - 1) \o SubSeq(ts, i + 1, Len(ts))

\* ts with the token t put in after its i-th token
TokenAdded(ts, i, t) == SubSeq(ts, 1, i) \o <<t>> \o SubSeq(ts, i + 1, Len(ts))

\* the token sequences tried: every sequence of at most MaxTokens tokens, the
\* valid sequences of depth at most MaxDepth, each of them also without its
\* last token, the objects in which a key occurs twice, and the sequences one
\* token away from a valid sequence of depth below MaxDepth
ParserInput(ts) ==
    \/ \E n \in 0..MaxTokens : ts \in [1..n -> RawTokens]
    \/ ts \in ValidSeqs(MaxDepth)
    \/ \E v \in ValidSeqs(MaxDepth) : ts = TokenDropped(v, Len(v))
    \/ \E x \in ValidSeqs(MaxDepth - 1), y \in OtherSeqs, z \in PairSeqs :
          \E b \in DupMembers(x, y, z) : ts = <<LeftBrace>> \o b \o <<RightBrace>>
    \/ \E v \in ValidSeqs(MaxDepth - 1) :
          \/ \E i \in 1..Len(v) : ts = TokenDropped(v, i)
          \/ \E i \in 0..Len(v), t \in RawTokens : ts = TokenAdded(v, i, t)

InitParse ==
    /\ source = NoValue
    /\ input = <<>>
    /\ tcur = 0
    /\ mode = "top"
    /\ start = 0
    /\ buf = <<>>
    /\ ParserInput(tokens)
    /\ phase = "parse"
    /\ current = 0
    /\ stack = <<>>
    /\ result = "none"
    /\ value = NoValue
    /\ err = NoError

SpecParse == InitParse /\ [][NextParse]_vars

-----------------------------------------------------------------------------
(* Compact serialization (value.rs) and parse_json on its output.           *)

RECURSIVE escape_json_string(_)
escape_json_string(s) ==
    IF s = <<>> THEN <<>>
    ELSE LET c == Head(s)
             e == IF c = QUOTE THEN <<BACKSLASH, QUOTE>>
                  ELSE IF c = BACKSLASH THEN <<BACKSLASH, BACKSLASH>>
                  ELSE IF c = NEWLINE THEN <<BACKSLASH, CH_n>>
                  ELSE IF c = TAB THEN <<BACKSLASH, CH_t>>
                  ELSE IF c = CR THEN <<BACKSLASH, CH_r>>
                  ELSE IF c = BACKSPACE THEN <<BACKSLASH, CH_b>>
                  ELSE IF c = FORMFEED THEN <<BACKSLASH, CH_f>>
                  ELSE <<c>>
         IN  e \o escape_json_string(Tail(s))

\* impl JsonFormat for String
string_to_json_string(s) == <<QUOTE>> \o escape_json_string(s) \o <<QUOTE>>

bool_to_string(v) == IF v = <<1>> THEN <<CH_t, CH_r, CH_u, CH_e>> ELSE <<CH_f, CH_a, CH_l, CH_s, CH_e>>

RECURSIVE SetToSeq(_)
SetToSeq(S) ==
    IF S = {} THEN <<>>
    ELSE LET k == CHOOSE x \in S : TRUE IN <<k>> \o SetToSeq(S \ {k})

Reverse(q) == [i \in 1..Len(q) |-> q[Len(q) + 1 - i]]

\* HashMap::iter: the order is unspecified; rev picks one of two orders
map_iter(map, rev) == IF rev THEN Reverse(SetToSeq(DOMAIN map)) ELSE SetToSeq(DOMAIN map)

\* the key as the compact form of an object writes it, between the quotes
compact_key(key) == key

RECURSIVE value_to_json_string(_, _), map_to_json_string(_, _, _), slice_to_json_string(_, _, _)

\* the match on the variant in both container impls and in Display
value_to_json_string(v, rev) ==
    IF v.t = "Null" THEN <<CH_n, CH_u, CH_l, CH_l>>
    ELSE IF v.t = "Boolean" THEN bool_to_string(v.v)
    ELSE IF v.t = "Number" THEN f64_to_json_string(v.v)
    ELSE IF v.t = "String" THEN string_to_json_string(v.v)
    ELSE IF v.t = "Array" THEN <<LBRACKET>> \o slice_to_json_string(v.v, 1, rev) \o <<RBRACKET>>
    ELSE <<LBRACE>> \o map_to_json_string(v.v, map_iter(v.v, rev), rev) \o <<RBRACE>>

\* impl JsonFormat for HashMap<String, JsonValue>: the entries from the one at
\* the head of keys on, a comma before all but the first
map_to_json_string(map, keys, rev) ==
    IF keys = <<>> THEN <<>>
    ELSE (IF Len(keys) < Cardinality(DOMAIN map) THEN <<COMMA>> ELSE <<>>)
         \o <<QUOTE>> \o compact_key(Head(keys)) \o <<QUOTE, COLON, SPACE>>
         \o value_to_json_string(map[Head(keys)], rev)
         \o map_to_json_string(map, Tail(keys), rev)

RECURSIVE slice_to_json_string_spaced(_, _, _)
slice_to_json_string_spaced(items, i, rev) ==
    IF i > Len(items) THEN <<>>
    ELSE (IF i > 1 THEN <<COMMA, SPACE>> ELSE <<>>)
         \o value_to_json_string(items[i], rev)
         \o slice_to_json_string_spaced(items, i + 1, rev)

\* impl JsonFormat for [JsonValue]: the items from index i on
slice_to_json_string(items, i, rev) ==
    IF i > Len(items) THEN <<>>
    ELSE (IF i > 1 THEN <<COMMA>> ELSE <<>>)
         \o value_to_json_string(items[i], rev)
         \o slice_to_json_string(items, i + 1, rev)

\* impl fmt::Display for JsonValue (to_string)
Display(v, rev) == value_to_json_string(v, rev)

MaxStr == 2

\* characters of the strings and keys that are serialized
ValueChars == {CH_a, QUOTE, BACKSLASH, NEWLINE, 233}

ValueStrings == SeqsUpTo(ValueChars, MaxStr)

ValueScalars ==
    {JString(str) : str \in ValueStrings}
    \cup {JNumber(<<1, 0>>), JNumber(<<-15, -1>>), JNumber(<<1, 1>>),
          JBoolean(TRUE), JBoolean(FALSE), JNull}

SmallScalars == {JNull, JNumber(<<1, 0>>), JString(KeyA)}

Map1(k, x) == [key \in {k} |-> x]
Map2(k1, x, k2, y) == [key \in {k1, k2} |-> IF key = k1 THEN x ELSE y]

ValueContainers ==
    {JArray(<<>>), JObject(EmptyMap)}
    \cup {JArray(<<x>>) : x \in ValueScalars}
    \cup {JArray(<<x, y>>) : x \in ValueScalars, y \in SmallScalars}
    \cup {JObject(Map1(k, JString(KeyA))) : k \in ValueStrings}
    \cup {JObject(Map1(KeyA, x)) : x \in ValueScalars}
    \cup {JObject(Map2(k, JNumber(<<1, 0>>), KeyB, JNull)) : k \in ValueStrings}

ValueNested ==
    {JArray(<<c>>) : c \in ValueContainers}
    \cup {JArray(<<JNull, c>>) : c \in ValueContainers}
    \cup {JObject(Map1(KeyA, c)) : c \in ValueContainers}

Values == ValueScalars \cup ValueContainers \cup ValueNested

\* parse_json(&v.to_string())
InitDisplayed ==
    \E v \in Values, rev \in BOOLEAN :
        /\ source = v
        /\ input = Utf8(Display(v, rev))
        /\ tcur = 0
        /\ mode = "top"
        /\ start = 0
        /\ buf = <<>>
        /\ tokens = <<>>
        /\ phase = "tokenize"
        /\ current = 0
        /\ stack = <<>>
        /\ result = "none"
        /\ value = NoValue
        /\ err = NoError

InitJson == InitPieces \/ InitDisplayed

\* parse_json: JsonParser::new(input)?.parse()
NextJson == NextTok \/ new_parser \/ NextParse

SpecJson == InitJson /\ [][NextJson]_vars

-----------------------------------------------------------------------------
(* Pretty printing (value.rs) and parse_json on its output.                 *)

SpacesButOne(k) == [i \in 1..(IF k > 0 THEN k - 1 ELSE 0) |-> SPACE]

\* " ".repeat(k)
Spaces(k) == [i \in 1..k |-> SPACE]

\* the key as the pretty form of an object writes it, between the quotes
pretty_key(key) == escape_json_string(key)

RECURSIVE pretty_print_recursive(_, _, _, _), pretty_items(_, _, _, _, _), pretty_entries(_, _, _, _, _)

\* JsonValue::pretty_print_recursive
pretty_print_recursive(v, depth, indent, rev) ==
    LET pad == Spaces(depth * indent)
    IN  IF v.t = "Null" THEN <<CH_n, CH_u, CH_l, CH_l>>
        ELSE IF v.t = "Boolean" THEN bool_to_string(v.v)
        ELSE IF v.t = "Number" THEN f64_to_json_string(v.v)
        ELSE IF v.t = "String" THEN string_to_json_string(v.v)
        ELSE IF v.t = "Array"
        THEN IF v.v = <<>> THEN <<LBRACKET, RBRACKET>>
             ELSE <<LBRACKET, NEWLINE>> \o pretty_items(v.v, 1, depth, indent, rev)
                  \o <<NEWLINE>> \o pad \o <<RBRACKET>>
        ELSE IF DOMAIN v.v = {} THEN <<LBRACE, RBRACE>>
             ELSE <<LBRACE, NEWLINE>> \o pretty_entries(v.v, map_iter(v.v, rev), depth, indent, rev)
                  \o <<NEWLINE>> \o pad \o <<RBRACE>>

\* items.join(",\n"): the items from index i on, each after inner_pad
pretty_items(items, i, depth, indent, rev) ==
    IF i > Len(items) THEN <<>>
    ELSE (IF i > 1 THEN <<COMMA, NEWLINE>> ELSE <<>>)
         \o Spaces((depth + 1) * indent)
         \o pretty_print_recursive(items[i], depth + 1, indent, rev)
         \o pretty_items(items, i + 1, depth, indent, rev)

\* entries.join(",\n"): the entries from the one at the head of keys on
pretty_entries(map, keys, depth, indent, rev) ==
    IF keys = <<>> THEN <<>>
    ELSE (IF Len(keys) < Cardinality(DOMAIN map) THEN <<COMMA, NEWLINE>> ELSE <<>>)
         \o Spaces((depth + 1) * indent)
         \o <<QUOTE>> \o pretty_key(Head(keys)) \o <<QUOTE, COLON, SPACE>>
         \o pretty_print_recursive(map[Head(keys)], depth + 1, indent, rev)
         \o pretty_entries(map, Tail(keys), depth, indent, rev)

\* JsonValue::pretty_print
pretty_print(v, indent, rev) == pretty_print_recursive(v, 0, indent, rev)

MaxIndent == 2

\* parse_json(&v.pretty_print(n))
InitPretty ==
    \E v \in Values, n \in 0..MaxIndent, rev \in BOOLEAN :
        /\ source = v
        /\ input = Utf8(pretty_print(v, n, rev))
        /\ tcur = 0
        /\ mode = "top"
        /\ start = 0
        /\ buf = <<>>
        /\ tokens = <<>>
        /\ phase = "tokenize"
        /\ current = 0
        /\ stack = <<>>
        /\ result = "none"
        /\ value = NoValue
        /\ err = NoError

InitPrettyJson == InitPieces \/ InitPretty

SpecPretty == InitPrettyJson /\ [][NextJson]_vars

-----------------------------------------------------------------------------
(* The Python bindings (python_bindings.rs): dumps and the conversions      *)
(* between Python objects and JsonValue.  A Python object is a record       *)
(* [t, v] with t the Python type.                                           *)

PyNone == [t |-> "NoneType", v |-> <<>>]
PyBool(b) == [t |-> "bool", v |-> <<IF b THEN 1 ELSE 0>>]
PyFloat(n) == [t |-> "float", v |-> n]
PyStr(s) == [t |-> "str", v |-> s]
PyListOf(items) == [t |-> "list", v |-> items]
PyDictOf(map) == [t |-> "dict", v |-> map]

RECURSIVE json_value_to_py(_)
json_value_to_py(v) ==
    IF v.t = "Null" THEN PyNone
    ELSE IF v.t = "Boolean" THEN PyBool(v.v = <<1>>)
    ELSE IF v.t = "Number" THEN PyFloat(v.v)
    ELSE IF v.t = "String" THEN PyStr(v.v)
    ELSE IF v.t = "Array" THEN PyListOf([i \in 1..Len(v.v) |-> json_value_to_py(v.v[i])])
    ELSE PyDictOf([k \in DOMAIN v.v |-> json_value_to_py(v.v[k])])

\* the objects drawn here are of the six types that convert; any other type is
\* the TypeError at the end of the function
RECURSIVE py_to_json_value(_)
py_to_json_value(obj) ==
    IF obj.t = "NoneType" THEN JNull
    ELSE IF obj.t = "bool" THEN JBoolean(obj.v = <<1>>)
    ELSE IF obj.t = "float" THEN JNumber(obj.v)
    ELSE IF obj.t = "str" THEN JString(obj.v)
    ELSE IF obj.t = "list" THEN JArray([i \in 1..Len(obj.v) |-> py_to_json_value(obj.v[i])])
    ELSE JObject([k \in DOMAIN obj.v |-> py_to_json_value(obj.v[k])])

\* dumps(obj, indent=None)
dumps(obj, indent, rev) ==
    IF indent # None THEN pretty_print(py_to_json_value(obj), indent, rev)
    ELSE Display(py_to_json_value(obj), rev)

\* the list [1, 2, 3]
OneTwoThree == PyListOf(<<PyFloat(<<1, 0>>), PyFloat(<<2, 0>>), PyFloat(<<3, 0>>)>>)

PyObjects == {json_value_to_py(v) : v \in Values} \cup {OneTwoThree}

\* parse_json(dumps(obj, indent))
InitDumps ==
    \E obj \in PyObjects, indent \in {None, MaxIndent}, rev \in BOOLEAN :
        /\ source = py_to_json_value(obj)
        /\ input = Utf8(dumps(obj, indent, rev))
        /\ tcur = 0
        /\ mode = "top"
        /\ start = 0
        /\ buf = <<>>
        /\ tokens = <<>>
        /\ phase = "tokenize"
        /\ current = 0
        /\ stack = <<>>
        /\ result = "none"
        /\ value = NoValue
        /\ err = NoError

InitDumpsJson == InitPieces \/ InitDumps

SpecDumps == InitDumpsJson /\ [][NextJson]_vars

-----------------------------------------------------------------------------
(* The JSON grammar, as a reference recogniser over token sequences:        *)
(*   value = string | number | true | false | null                          *)
(*         | '[' [value (',' value)*] ']'                                   *)
(*         | '{' [string ':' value (',' string ':' value)*] '}'             *)
(* GValue(ts, i) reads one value at position i: [ok, v, next, distinct].    *)

Bad == [ok |-> FALSE, v |-> NoValue, next |-> 0, distinct |-> TRUE]

Good(v, next, distinct) == [ok |-> TRUE, v |-> v, next |-> next, distinct |-> distinct]

At(ts, i) == IF i >= 1 /\ i <= Len(ts) THEN ts[i] ELSE NoValue

RECURSIVE GValue(_, _), GElements(_, _, _, _), GMembers(_, _, _, _)

GValue(ts, i) ==
    LET tk == At(ts, i)
    IN  IF IsScalar(tk) THEN Good(scalar_value(tk), i + 1, TRUE)
        ELSE IF tk = LeftBracket
        THEN IF At(ts, i + 1) = RightBracket THEN Good(JArray(<<>>), i + 2, TRUE)
             ELSE GElements(ts, i + 1, <<>>, TRUE)
        ELSE IF tk = LeftBrace
        THEN IF At(ts, i + 1) = RightBrace THEN Good(JObject(EmptyMap), i + 2, TRUE)
             ELSE GMembers(ts, i + 1, EmptyMap, TRUE)
        ELSE Bad

GElements(ts, i, acc, distinct) ==
    LET r == GValue(ts, i)
    IN  IF ~r.ok THEN Bad
        ELSE IF At(ts, r.next) = Comma
        THEN GElements(ts, r.next + 1, Append(acc, r.v), distinct /\ r.distinct)
        ELSE IF At(ts, r.next) = RightBracket
        THEN Good(JArray(Append(acc, r.v)), r.next + 1, distinct /\ r.distinct)
        ELSE Bad

GMembers(ts, i, acc, distinct) ==
    IF At(ts, i).t # "String" \/ At(ts, i + 1) # Colon THEN Bad
    ELSE LET k == At(ts, i).v
             r == GValue(ts, i + 2)
             d == distinct /\ r.distinct /\ k \notin DOMAIN acc
         IN  IF ~r.ok THEN Bad
             ELSE IF At(ts, r.next) = Comma
             THEN GMembers(ts, r.next + 1, MapInsert(acc, k, r.v), d)
             ELSE IF At(ts, r.next) = RightBrace
             THEN Good(JObject(MapInsert(acc, k, r.v)), r.next + 1, d)
             ELSE Bad

\* the whole sequence is exactly one value
GrammarValue(ts) ==
    LET r == GValue(ts, 1)
    IN  IF r.ok /\ r.next = Len(ts) + 1 THEN r ELSE Bad

-----------------------------------------------------------------------------
(* Claims about JsonParser::parse, checked under SpecParse.                 *)

\* the next loop iteration (or the dispatch of parse) consumes a token or returns
Progress == ENABLED (NextParse /\ (current' > current \/ result' # "none"))

\* C1: parse terminates on every token sequence: while it has not returned,
\* every iteration of the parse_object and parse_array loops consumes at least one
\* token or returns, also on '{' or '[' met inside an object before any colon.
C1_EveryIterationProgresses == Parsing => Progress

\* C2: parse returns Ok only if the whole token sequence is exactly one value of
\* the JSON grammar; every other sequence, the empty one included, yields Err.
C2_OkOnlyForOneGrammarValue ==
    (phase = "parse" /\ result # "none" /\ ~GrammarValue(tokens).ok) => result = "Err"

\* C3: on a token sequence that is one valid JSON value with distinct keys in
\* every object, parse keeps making progress and returns Ok(v), v being the value
\* the grammar denotes: scalars by kind and payload, arrays in source order,
\* objects key by key, nested containers likewise.
C3_ValidInputParsesToItsValue ==
    LET g == GrammarValue(tokens)
    IN  (phase = "parse" /\ g.ok /\ g.distinct) =>
            /\ result = "none" => Progress
            /\ result # "none" => (result = "Ok" /\ value = g.v)

\* a two-key object holding a two-element array has been parsed
C3_Witness ==
    /\ phase = "parse"
    /\ result = "Ok"
    /\ GrammarValue(tokens).ok
    /\ value.t = "Object"
    /\ DOMAIN value.v = {KeyA, KeyB}
    /\ value.v[KeyA].t = "String"
    /\ value.v[KeyB].t = "Array"
    /\ Len(value.v[KeyB].v) = 2
    /\ value.v[KeyB].v[1].t = "Number"
    /\ value.v[KeyB].v[2].t = "Null"

\* C9: in an object a colon is accepted only directly after a string key of the
\* same member slot, so a pending colon always stands right after the key the
\* value will be inserted under, and that key opens the slot ('{' or ',' before it).
C9_ColonOnlyAfterKey ==
    (InObject /\ Top.colon_found) =>
        /\ current >= 3
        /\ tokens[current] = Colon
        /\ tokens[current - 1].t = "String"
        /\ tokens[current - 1].v = Top.key
        /\ tokens[current - 2] \in {LeftBrace, Comma}

\* the comma branch of parse_array or parse_object runs
CommaStep == array_comma \/ object_comma

\* the token after the comma is the closing delimiter of the container
ClosingFollows ==
    get_token(current + 1) = (IF Top.kind = "array" THEN RightBracket ELSE RightBrace)

\* the comma is trailing, leading or doubled
BadComma == ClosingFollows \/ ~Top.expect_comma

\* C10: a consumed comma that is followed by the closing delimiter, or
\* that comes where no comma was expected, makes the parse return
\* Err(UnexpectedToken).
C10_BadCommaIsUnexpectedToken ==
    [][(CommaStep /\ BadComma) => (result' = "Err" /\ err'.kind = "UnexpectedToken")]_vars

\* C10, by what follows the comma: a trailing, leading or doubled comma makes
\* the parse return Err, UnexpectedToken when a token follows the comma and
\* UnexpectedEndOfInput when the comma is the last token.
C10_BadCommaIsRejected ==
    [][(CommaStep /\ BadComma) =>
          /\ result' = "Err"
          /\ err'.kind = (IF current + 1 < Len(tokens) THEN "UnexpectedToken"
                          ELSE "UnexpectedEndOfInput")]_vars

\* a trailing comma of an array, after an element, has been rejected
C10_Witness ==
    /\ phase = "parse"
    /\ result = "Err"
    /\ err.kind = "UnexpectedToken"
    /\ err.expected = "string, bool, number or object"
    /\ current >= 3
    /\ tokens[current] = Comma
    /\ ppeek = RightBracket
    /\ Top.kind = "array"
    /\ Len(Top.array) >= 1

\* the token at the cursor starts a value
ValueStarts == IsScalar(ppeek) \/ ppeek \in {LeftBracket, LeftBrace}

\* the token just consumed ends an element of the array being parsed, or a
\* member value of the object being parsed
ElementCompleted ==
    /\ Parsing
    /\ stack # <<>>
    /\ current >= 2
    /\ \/ tokens[current] \in {RightBracket, RightBrace}
       \/ Top.kind = "array" /\ IsScalar(tokens[current])
       \/ Top.kind = "object" /\ IsScalar(tokens[current]) /\ tokens[current - 1] = Colon

\* C11: missing commas are rejected: in an array a value-starting token right
\* after a completed element, and in an object a value-starting token right
\* after a completed member value, makes the parse return Err(UnexpectedToken)
\* with expected ",".
C11_MissingCommaIsRejected ==
    [][(ElementCompleted /\ ValueStarts /\ NextParse) =>
          /\ result' = "Err"
          /\ err'.kind = "UnexpectedToken"
          /\ err'.expected = ","]_vars

\* a '{' right after a completed member value of an object has been rejected
C11_Witness ==
    /\ phase = "parse"
    /\ result = "Err"
    /\ err.kind = "UnexpectedToken"
    /\ err.expected = ","
    /\ stack # <<>>
    /\ Top.kind = "object"
    /\ current >= 4
    /\ tokens[current - 1] = Colon
    /\ IsScalar(tokens[current])
    /\ ppeek = LeftBrace

\* parse_object meets a string while no colon is pending
StringBeforeColon == object_string /\ ~Top.colon_found

\* the token after the one at the cursor exists and is not a colon
NoColonFollows == get_token(current + 1) \notin {NoValue, Colon}

\* the string is taken as the key of the slot, nothing is inserted
TakenAsKey ==
    /\ get_token(current + 1) = Colon
    /\ result' = "none"
    /\ Top'.key = ppeek.v
    /\ Top'.object = Top.object

\* the parse fails asking for a colon, nothing is inserted
ColonExpected ==
    /\ result' = "Err"
    /\ err'.kind = "UnexpectedToken"
    /\ err'.expected = ":"
    /\ stack' = stack

\* C12: in parse_object a string met while no colon is pending is accepted as a
\* key only if the next token is a colon; if the next token exists and is
\* anything else the parse returns Err(UnexpectedToken) with expected ":" and
\* inserts nothing.
C12_KeyNeedsColon ==
    [][StringBeforeColon =>
          /\ result' = "none" => TakenAsKey
          /\ NoColonFollows => ColonExpected]_vars

\* C12, where a key may stand: the same, for a string met while no colon is
\* pending and no comma is awaited; a string met while a comma is awaited is
\* rejected with expected "," whatever follows it.
C12_KeyNeedsColonWhereKeyMayStand ==
    [][StringBeforeColon =>
          /\ result' = "none" => TakenAsKey
          /\ (NoColonFollows /\ ~Top.expect_comma) => ColonExpected
          /\ Top.expect_comma =>
                (result' = "Err" /\ err'.kind = "UnexpectedToken" /\ err'.expected = ","
                 /\ stack' = stack)]_vars

\* a second key, after a comma and followed by a number, has been rejected
C12_Witness ==
    /\ phase = "parse"
    /\ result = "Err"
    /\ err.kind = "UnexpectedToken"
    /\ err.expected = ":"
    /\ stack # <<>>
    /\ Top.kind = "object"
    /\ ~Top.colon_found
    /\ DOMAIN Top.object # {}
    /\ ppeek.t = "String"
    /\ get_token(current + 1).t = "Number"

\* ts is a valid array or object with its final closing token removed
Unclosed(ts) ==
    /\ ts # <<>>
    /\ ts[1] \in {LeftBracket, LeftBrace}
    /\ GrammarValue(Append(ts, IF ts[1] = LeftBracket THEN RightBracket ELSE RightBrace)).ok

\* C13: on a valid array or object whose final closing bracket or brace was
\* removed, parse keeps making progress and returns Err(UnexpectedEndOfInput),
\* never Ok and never another error kind.
C13_UnclosedIsEndOfInput ==
    (phase = "parse" /\ Unclosed(tokens)) =>
        /\ result = "none" => Progress
        /\ result # "none" => (result = "Err" /\ err.kind = "UnexpectedEndOfInput")

\* an object holding a closed array, its own brace missing, has been rejected
C13_Witness ==
    /\ phase = "parse"
    /\ Unclosed(tokens)
    /\ result = "Err"
    /\ err.kind = "UnexpectedEndOfInput"
    /\ tokens[1] = LeftBrace
    /\ tokens[Len(tokens)] = RightBracket
    /\ current = Len(tokens)

\* parse_array or parse_object has failed for want of a token
RanOutInContainer ==
    /\ phase = "parse"
    /\ result = "Err"
    /\ stack # <<>>
    /\ err.kind = "UnexpectedEndOfInput"

\* C14: when a container runs out of tokens before its closing delimiter,
\* wherever in the container (after a value, a key, a string value or a comma),
\* the UnexpectedEndOfInput error has expected "closing bracket" in an array and
\* "closing brace" in an object.
C14_EndOfInputNamesTheCloser ==
    RanOutInContainer =>
        err.expected = (IF Top.kind = "array" THEN "closing bracket" ELSE "closing brace")

\* the positions of the keys of the object whose first key stands at position i
RECURSIVE KeyPositions(_, _)
KeyPositions(ts, i) ==
    LET r == GValue(ts, i + 2)
    IN  IF At(ts, r.next) = Comma THEN {i} \cup KeyPositions(ts, r.next + 1) ELSE {i}

\* the position of the last occurrence of the key k among the positions ps
LastPosition(ts, ps, k) ==
    CHOOSE p \in ps : ts[p].v = k /\ \A q \in ps : ts[q].v = k => q <= p

\* ts is a valid object with at least one member
ValidObject(ts) == GrammarValue(ts).ok /\ Len(ts) > 2 /\ ts[1] = LeftBrace

\* some key of the object occurs more than once
HasRepeatedKey(ts) ==
    \E p, q \in KeyPositions(ts, 2) : p # q /\ ts[p].v = ts[q].v

\* C15: duplicate keys are last-write-wins: on a valid object in which a key
\* occurs more than once, parse returns an object with exactly one entry per
\* key, holding the value of the key's last occurrence, whatever the kinds of
\* the values (scalar, array, object).
C15_LastWriteWins ==
    (phase = "parse" /\ result # "none" /\ ValidObject(tokens) /\ HasRepeatedKey(tokens)) =>
        LET ps == KeyPositions(tokens, 2)
        IN  /\ result = "Ok"
            /\ value.t = "Object"
            /\ DOMAIN value.v = {tokens[p].v : p \in ps}
            /\ \A k \in DOMAIN value.v :
                   value.v[k] = GValue(tokens, LastPosition(tokens, ps, k) + 2).v

\* an array under a key has been replaced by the scalar of a later occurrence
C15_Witness ==
    /\ phase = "parse"
    /\ result = "Ok"
    /\ ValidObject(tokens)
    /\ HasRepeatedKey(tokens)
    /\ tokens[2].v = KeyA
    /\ tokens[4] = LeftBracket
    /\ value.v[KeyA].t = "Null"
    /\ KeyB \in DOMAIN value.v

\* C29: when parse returns Ok every token has been consumed: the parser cursor
\* equals the number of tokens, so no input with tokens left over after the
\* first complete value (two scalars, a closed array followed by further tokens)
\* is accepted.
C29_OkConsumesEveryToken ==
    (phase = "parse" /\ result = "Ok") => current = Len(tokens)

\* in parse_object a key and its colon have just been consumed and no value has
\* been inserted for the key
ValuePending ==
    /\ InObject /\ Top.colon_found
    /\ current >= 3
    /\ tokens[current].t = "Colon" /\ tokens[current - 1].t = "String"
    /\ tokens[current - 2].t \in {"LeftBrace", "Comma"}
    /\ Top.key = tokens[current - 1].v

\* C30: in a successfully parsed object every key token that was followed by a
\* colon has an entry in the result: when the closing brace or a comma arrives
\* while a colon has been consumed and no value has yet been inserted for the
\* pending key, parse_object does not go on to return Ok: the parse fails there.
C30_PendingKeyGetsItsValue ==
    [][(ValuePending /\ ppeek \in {RightBrace, Comma}) => result' = "Err"]_vars

-----------------------------------------------------------------------------
(* Claims about Tokenizer::tokenize, checked under SpecTok.                 *)

\* the escape table of the JSON string grammar
EscapeTable(c) ==
    CASE c = CH_n -> NEWLINE
      [] c = CH_t -> TAB
      [] c = CH_r -> CR
      [] c = BACKSLASH -> BACKSLASH
      [] c = QUOTE -> QUOTE
      [] c = SLASH -> SLASH
      [] c = CH_b -> BACKSPACE
      [] c = CH_f -> FORMFEED
      [] OTHER -> None

\* four hexadecimal digits read as a number
FourHex(cs) ==
    4096 * hex_value(cs[1]) + 256 * hex_value(cs[2]) + 16 * hex_value(cs[3]) + hex_value(cs[4])

IsFourHexScalar(cs) ==
    /\ Len(cs) = 4
    /\ \A i \in 1..4 : is_hex_digit(cs[i])
    /\ ~(FourHex(cs) >= 55296 /\ FourHex(cs) <= 57343)

\* the character that starts at byte offset off (0-based) of a text
CharAt(bs, off) == Utf8Decode(SubSeq(bs, off + 1, Len(bs)))[1]

\* C5: tokenize returns a Result on every valid UTF-8 input and never aborts:
\* when the four bytes after a backslash-u are not four hexadecimal digits, also
\* when the fourth is not on a character boundary, the outcome is
\* Err(InvalidUnicode), not a panic.
C5_TokenizeNeverPanics == result # "Panic"

\* the up to four bytes after the `\u` that the cursor stands on
BytesAfterU == Slice(input, tcur + 2, IF tcur + 6 <= Len(input) THEN tcur + 6 ELSE Len(input))

\* C6: a backslash-u escape is decoded to one character only when the next four
\* characters are hexadecimal digits forming a Unicode scalar value; every other
\* continuation ('+' or 'G' among them, a surrogate, fewer than four characters
\* left) fails with InvalidUnicode.  Stated for continuations of ASCII characters.
C6_UnicodeEscapeNeedsFourHexDigits ==
    [][(slow_unicode /\ \A i \in 1..Len(BytesAfterU) : BytesAfterU[i] < 128) =>
          IF IsFourHexScalar(BytesAfterU)
          THEN result' = "none" /\ buf' = Append(buf, FourHex(BytesAfterU))
          ELSE result' = "Err" /\ err'.kind = "InvalidUnicode"]_vars

\* the body of a string literal is well formed: no bare quote, every backslash
\* starts one of the eight simple escapes or a \u escape of a scalar value
RECURSIVE WellFormedBody(_)
WellFormedBody(cs) ==
    IF cs = <<>> THEN TRUE
    ELSE IF cs[1] = QUOTE THEN FALSE
    ELSE IF cs[1] # BACKSLASH THEN WellFormedBody(Tail(cs))
    ELSE IF Len(cs) < 2 THEN FALSE
    ELSE IF cs[2] = CH_u
         THEN /\ Len(cs) >= 6
              /\ IsFourHexScalar(SubSeq(cs, 3, 6))
              /\ WellFormedBody(SubSeq(cs, 7, Len(cs)))
    ELSE EscapeTable(cs[2]) # None /\ WellFormedBody(SubSeq(cs, 3, Len(cs)))

\* the text a well-formed body denotes
RECURSIVE DecodedBody(_)
DecodedBody(cs) ==
    IF cs = <<>> THEN <<>>
    ELSE IF cs[1] # BACKSLASH THEN <<cs[1]>> \o DecodedBody(Tail(cs))
    ELSE IF cs[2] = CH_u
         THEN <<FourHex(SubSeq(cs, 3, 6))>> \o DecodedBody(SubSeq(cs, 7, Len(cs)))
    ELSE <<EscapeTable(cs[2])>> \o DecodedBody(SubSeq(cs, 3, Len(cs)))

\* the literal that opens the input has just been closed at the cursor
FirstLiteralClosed ==
    /\ phase = "tokenize"
    /\ mode = "top"
    /\ Len(input) >= 2
    /\ input[1] = QUOTE
    /\ tcur >= 2
    /\ input[tcur] = QUOTE
    /\ Len(tokens) = 1
    /\ tokens[1].t = "String"

FirstLiteralBody == Utf8Decode(Slice(input, 1, tcur - 1))

\* C7: the text of a String token is the source text between the quotes with
\* each escape replaced by its character and every other character unchanged,
\* on the fast path and on the slow path, multi-byte characters after the first
\* backslash included.
C7_StringTokenIsDecodedBody ==
    (FirstLiteralClosed /\ WellFormedBody(FirstLiteralBody)) =>
        tokens[1].v = DecodedBody(FirstLiteralBody)

\* C8: a backslash followed by one of n t r \ " / b f decodes to its character of
\* the escape table; followed by any other character but 'u', tokenize fails
\* with InvalidEscape carrying that character.
C8_SimpleEscapes ==
    [][slow_escape =>
          LET c == CharAt(input, tcur + 1)
          IN  IF EscapeTable(c) # None
              THEN result' = "none" /\ buf' = Append(buf, EscapeTable(c))
              ELSE result' = "Err" /\ err'.kind = "InvalidEscape" /\ err'.found = <<c>>]_vars

\* the input begins with an ASCII punctuation character that starts no token
StartsWithStrayPunctuation ==
    /\ input # <<>>
    /\ TopOther(input[1])
    /\ is_ascii_punctuation(input[1])

\* C16: when the input begins with an ASCII punctuation character that starts
\* no JSON token (such as '@'), tokenizing fails with UnexpectedToken whose
\* expected field is "valid JSON token", whose found field is that character
\* and whose position is 0.
C16_StrayPunctuationAtStart ==
    (phase = "tokenize" /\ StartsWithStrayPunctuation) =>
        /\ result = "none" => (tcur = 0 /\ ENABLED tokenize_punctuation)
        /\ result # "none" =>
              /\ result = "Err"
              /\ err.kind = "UnexpectedToken"
              /\ err.expected = "valid JSON token"
              /\ err.found = <<input[1]>>
              /\ err.position = 0

\* tokenize returns an UnexpectedToken error in this step
TokenizeRejectsToken ==
    (tokenize_punctuation \/ tokenize_keyword) /\ result' = "Err"

\* C17: every UnexpectedToken error of tokenize (unrecognised keyword or stray
\* punctuation) points at the offending token: its position is the byte offset
\* of the character reported in found, also when that is not offset 0.
C17_TokenErrorPosition ==
    [][TokenizeRejectsToken =>
          /\ err'.kind = "UnexpectedToken"
          /\ err'.found = <<input[tcur + 1]>>
          /\ err'.position = tcur]_vars

Letters == (65..90) \cup (97..122)

\* the letters of bs from offset i up to the first byte that is not a letter
RECURSIVE LetterRun(_, _)
LetterRun(bs, i) ==
    IF i < Len(bs) /\ bs[i + 1] \in Letters THEN <<bs[i + 1]>> \o LetterRun(bs, i + 1) ELSE <<>>

AtLetter ==
    /\ phase = "tokenize" /\ result = "none" /\ mode = "top"
    /\ tcur < Len(input) /\ input[tcur + 1] \in Letters

\* C24: when tokenize meets an ASCII letter outside a string it consumes the
\* maximal run of ASCII letters and emits Boolean(true), Boolean(false) or Null
\* exactly when the run is "true", "false" or "null"; every other run (a prefix,
\* a concatenation, a different case) fails with UnexpectedToken and emits no
\* token.
C24_KeywordIsTheWholeRun ==
    [][AtLetter =>
        LET run == LetterRun(input, tcur)
        IN  /\ tcur' = tcur + Len(run)
            /\ run = <<CH_t, CH_r, CH_u, CH_e>> =>
                  (tokens' = Append(tokens, BooleanTok(TRUE)) /\ result' = "none")
            /\ run = <<CH_f, CH_a, CH_l, CH_s, CH_e>> =>
                  (tokens' = Append(tokens, BooleanTok(FALSE)) /\ result' = "none")
            /\ run = <<CH_n, CH_u, CH_l, CH_l>> =>
                  (tokens' = Append(tokens, NullTok) /\ result' = "none")
            /\ run \notin {<<CH_t, CH_r, CH_u, CH_e>>, <<CH_f, CH_a, CH_l, CH_s, CH_e>>,
                           <<CH_n, CH_u, CH_l, CH_l>>} =>
                  (result' = "Err" /\ err'.kind = "UnexpectedToken" /\ tokens' = tokens)]_vars

\* the run "truefalse" was consumed whole and rejected
C24_Witness ==
    /\ input = <<CH_t, CH_r, CH_u, CH_e, CH_f, CH_a, CH_l, CH_s, CH_e>>
    /\ tcur = 9 /\ tokens = <<>>
    /\ result = "Err" /\ err.kind = "UnexpectedToken"

NumberBytes == (48..57) \cup {DOT, MINUS, PLUS, CH_e, CH_E}

\* the bytes of bs from offset i up to the first byte that is not of a number
RECURSIVE NumberRun(_, _)
NumberRun(bs, i) ==
    IF i < Len(bs) /\ bs[i + 1] \in NumberBytes THEN <<bs[i + 1]>> \o NumberRun(bs, i + 1) ELSE <<>>

\* the texts str::parse::<f64> accepts among the runs of number bytes:
\*   [sign] (digits ['.' [digits]] | '.' digits) [(e|E) [sign] digits]
\* read from index i in the place st of that shape
RECURSIVE Parsable(_, _, _)
Parsable(s, i, st) ==
    IF i > Len(s) THEN st \in {"int", "frac", "expdigits"}
    ELSE LET c     == s[i]
             digit == c \in 48..57
             sign  == c \in {PLUS, MINUS}
             e     == c \in {CH_e, CH_E}
             next  == CASE st = "start" /\ sign -> "sign"
                        [] st \in {"start", "sign"} /\ digit -> "int"
                        [] st \in {"start", "sign"} /\ c = DOT -> "dot"
                        [] st = "int" /\ digit -> "int"
                        [] st = "int" /\ c = DOT -> "frac"
                        [] st \in {"dot", "frac"} /\ digit -> "frac"
                        [] st \in {"int", "frac"} /\ e -> "exp"
                        [] st = "exp" /\ sign -> "expsign"
                        [] st \in {"exp", "expsign", "expdigits"} /\ digit -> "expdigits"
                        [] OTHER -> "reject"
         IN  next # "reject" /\ Parsable(s, i + 1, next)

AtNumberStart ==
    /\ phase = "tokenize" /\ result = "none" /\ mode = "top"
    /\ tcur < Len(input) /\ input[tcur + 1] \in (48..57) \cup {MINUS}

\* C25: when tokenize meets a digit or '-' outside a string it consumes the
\* maximal run of characters from {0-9 . - + e E} and emits one Number token
\* for the whole run; a run that is not a parsable number (such as "-", "1-2",
\* "1.2.3", "1e") fails with InvalidNumber whose value is exactly the run; the
\* run is never split into several tokens.
C25_NumberIsTheWholeRun ==
    [][AtNumberStart =>
        LET run == NumberRun(input, tcur)
        IN  /\ tcur' = tcur + Len(run)
            /\ IF Parsable(run, 1, "start")
               THEN /\ result' = "none"
                    /\ Len(tokens') = Len(tokens) + 1
                    /\ SubSeq(tokens', 1, Len(tokens)) = tokens
                    /\ tokens'[Len(tokens')].t = "Number"
               ELSE /\ result' = "Err"
                    /\ err'.kind = "InvalidNumber" /\ err'.found = run
                    /\ tokens' = tokens
            /\ (\/ run = <<MINUS>>
                \/ run = <<CH_1, CH_e>>
                \/ \E i \in 2..Len(run) : run[i] = MINUS /\ run[i - 1] \in 48..57
                \/ Cardinality({i \in 1..Len(run) : run[i] = DOT}) > 1)
               => result' = "Err"]_vars

\* the run "1.51.5" was consumed whole and rejected with the run as its value
C25_Witness ==
    /\ input = <<CH_1, DOT, CH_5, CH_1, DOT, CH_5>>
    /\ tcur = 6 /\ tokens = <<>>
    /\ result = "Err" /\ err.kind = "InvalidNumber" /\ err.found = input

\* the run has a '.' that no digit precedes
HasLeadingDecimalPoint(run) ==
    \E i \in 1..Len(run) : run[i] = DOT /\ (i = 1 \/ run[i - 1] \notin 48..57)

\* outside a string the cursor stands on a '.'
AtDecimalPoint ==
    /\ phase = "tokenize" /\ result = "none" /\ mode = "top"
    /\ tcur < Len(input) /\ input[tcur + 1] = DOT

\* C26: a numeric literal must have a digit before its decimal point: no number
\* text with a '.' not preceded by a digit (".5", likewise "-.5") is tokenized
\* into a Number token; tokenize returns an error for it.
C26_DigitBeforeDecimalPoint ==
    [][/\ AtDecimalPoint => (result' = "Err" /\ tokens' = tokens)
       /\ (AtNumberStart /\ HasLeadingDecimalPoint(NumberRun(input, tcur))) =>
              (result' = "Err" /\ tokens' = tokens)]_vars

\* the bytes that are neither whitespace, nor the start of a token, nor ASCII
\* punctuation: ASCII control characters and the bytes of non-ASCII characters
Skipped(c) == (c < 32 /\ c \notin {9, 10, 13}) \/ c >= 127

RECURSIVE WithoutSkipped(_)
WithoutSkipped(bs) ==
    IF bs = <<>> THEN <<>>
    ELSE (IF Skipped(Head(bs)) THEN <<>> ELSE <<Head(bs)>>) \o WithoutSkipped(Tail(bs))

\* no skipped byte stands inside a run of letters or of number characters: the
\* nearest other bytes on its two sides are not both of such a run
SkippedOnlyBetweenTokens(bs) ==
    \A i \in 1..Len(bs) :
        Skipped(bs[i]) =>
            ~ \E l \in 1..(i - 1), r \in (i + 1)..Len(bs) :
                  /\ \A j \in (l + 1)..(r - 1) : Skipped(bs[j])
                  /\ bs[l] \in NumberBytes \cup Letters
                  /\ bs[r] \in NumberBytes \cup Letters

\* the outcome of tokenize on a text without string literals, read from offset i
\* with the tokens acc emitted so far
RECURSIVE TokensOf(_, _, _)
TokensOf(bs, i, acc) ==
    IF i >= Len(bs) THEN [ok |-> TRUE, tokens |-> acc]
    ELSE LET c == bs[i + 1]
         IN  IF c \in {SPACE, NEWLINE, TAB, CR} \/ Skipped(c) THEN TokensOf(bs, i + 1, acc)
             ELSE IF c \in {LBRACE, RBRACE, LBRACKET, RBRACKET, COMMA, COLON}
             THEN TokensOf(bs, i + 1, Append(acc, structural_token(c)))
             ELSE IF c \in (48..57) \cup {MINUS}
             THEN LET run == NumberRun(bs, i)
                  IN  IF Parsable(run, 1, "start")
                      THEN TokensOf(bs, i + Len(run), Append(acc, NumberTok(parse_f64(run).n)))
                      ELSE [ok |-> FALSE, tokens |-> acc]
             ELSE IF c \in Letters
             THEN LET run == LetterRun(bs, i)
                  IN  IF keyword_token(run) # NoValue
                      THEN TokensOf(bs, i + Len(run), Append(acc, keyword_token(run)))
                      ELSE [ok |-> FALSE, tokens |-> acc]
             ELSE [ok |-> FALSE, tokens |-> acc]

C28_CursorForwardInBounds ==
    [][/\ 0 <= tcur /\ tcur <= Len(input)
       /\ tcur <= tcur'
       /\ tcur' <= Len(input')]_vars

\* the cursor has jumped over a backslash-u escape that opens a literal
C28_Witness ==
    /\ Len(input) >= 7
    /\ input[1] = QUOTE /\ input[2] = BACKSLASH /\ input[3] = CH_u
    /\ tcur = 7 /\ Len(buf) = 1
    /\ mode = "slow" /\ result = "none"

-----------------------------------------------------------------------------
(* Claims about parse_json on serialized values, checked under SpecJson.    *)

\* C4: round trip: for every JsonValue tree v, with strings and keys of any
\* characters (double quote, backslash and control characters included),
\* parse_json on the compact serialization of v returns Ok(v).
C4_CompactRoundTrip ==
    (source # NoValue /\ result # "none") =>
        (phase = "parse" /\ result = "Ok" /\ value = source)

\* the offset of the first '@' of the input; no literal of the inputs tried
\* holds one, so every '@' is a lexical error
HasStray == \E i \in 1..Len(input) : input[i] = AT_SIGN
FirstStray == CHOOSE i \in 0..Len(input) - 1 :
                  input[i + 1] = AT_SIGN /\ \A j \in 1..i : input[j] # AT_SIGN

\* the parser has not run
ParserNeverRan == current = 0 /\ stack = <<>> /\ value = NoValue

\* C18: scanning completes before parsing starts: the parser runs only on the
\* tokens of the whole input, and on an input with a lexical error the scan
\* never gets past the first such error in text order, parse_json returns the
\* tokenizer's error and nothing runs after it: the parser never runs, also
\* when a structural error stands earlier in the text.
C18_ScanThenParse ==
    /\ phase = "tokenize" => ParserNeverRan
    /\ (phase = "parse" /\ source = NoValue) => (tcur = Len(input) /\ mode = "top")
    /\ (phase = "tokenize" /\ result # "none") => (result = "Err" /\ ~ENABLED NextJson)
    /\ HasStray => (phase = "tokenize" /\ tcur <= FirstStray)

\* a stray '@' after a ']' that no value starts with has been reported
C18_Witness ==
    /\ phase = "tokenize"
    /\ result = "Err"
    /\ err.kind = "UnexpectedToken"
    /\ err.found = <<AT_SIGN>>
    /\ tokens = <<RightBracket>>
    /\ ParserNeverRan

-----------------------------------------------------------------------------
(* Claims about pretty_print, checked under SpecPretty.                     *)

\* C19: pretty-print round trip: for every JsonValue tree v and every indent
\* width n >= 0, parse_json on v.pretty_print(n) returns Ok(v).
C19_PrettyRoundTrip ==
    (source # NoValue /\ result # "none") =>
        /\ phase = "parse"
        /\ stack = <<>>
        /\ result = "Ok"
        /\ value = source

\* a pretty text without the layout pretty_print inserts between entries: the
\* newlines outside string literals and the spaces that follow them
RECURSIVE StripLayout(_, _, _)
StripLayout(cs, in_string, after_newline) ==
    IF cs = <<>> THEN <<>>
    ELSE LET c == Head(cs)
         IN  IF in_string
             THEN IF c = BACKSLASH /\ Len(cs) >= 2
                  THEN <<c, cs[2]>> \o StripLayout(SubSeq(cs, 3, Len(cs)), TRUE, FALSE)
                  ELSE <<c>> \o StripLayout(Tail(cs), c # QUOTE, FALSE)
             ELSE IF c = NEWLINE \/ (c = SPACE /\ after_newline)
                  THEN StripLayout(Tail(cs), FALSE, TRUE)
                  ELSE <<c>> \o StripLayout(Tail(cs), c = QUOTE, FALSE)

\* C20: pretty and compact serialization use the same value-to-text mapping:
\* for every value v and indent n, v.pretty_print(n) without the newlines and
\* indentation inserted between entries is the compact serialization of v (same
\* scalar texts, same escaped strings, same escaped keys, same entry order).
C20_PrettyIsCompactWithLayout ==
    (source # NoValue /\ phase = "tokenize" /\ tcur = 0) =>
        \A n \in 0..MaxIndent, rev \in BOOLEAN :
            StripLayout(pretty_print(source, n, rev), FALSE, FALSE) = Display(source, rev)

Blank(k) == [i \in 1..k |-> SPACE]

\* the texts of q in order, a comma and a newline between neighbours
RECURSIVE LinesJoined(_)
LinesJoined(q) ==
    IF Len(q) = 0 THEN <<>>
    ELSE IF Len(q) = 1 THEN q[1]
    ELSE LinesJoined(SubSeq(q, 1, Len(q) - 1)) \o <<COMMA, NEWLINE>> \o q[Len(q)]

\* the layout of v at nesting depth d for indent n
RECURSIVE Layout(_, _, _, _)
Layout(v, d, n, rev) ==
    IF v.t = "Array" /\ Len(v.v) > 0
    THEN <<LBRACKET, NEWLINE>>
         \o LinesJoined([i \in 1..Len(v.v) |->
                            Blank((d + 1) * n) \o Layout(v.v[i], d + 1, n, rev)])
         \o <<NEWLINE>> \o Blank(d * n) \o <<RBRACKET>>
    ELSE IF v.t = "Array" THEN <<LBRACKET, RBRACKET>>
    ELSE IF v.t = "Object" /\ DOMAIN v.v # {}
    THEN LET keys == map_iter(v.v, rev)
         IN  <<LBRACE, NEWLINE>>
             \o LinesJoined([i \in 1..Len(keys) |->
                                Blank((d + 1) * n) \o <<QUOTE>> \o escape_json_string(keys[i])
                                \o <<QUOTE, COLON, SPACE>> \o Layout(v.v[keys[i]], d + 1, n, rev)])
             \o <<NEWLINE>> \o Blank(d * n) \o <<RBRACE>>
    ELSE IF v.t = "Object" THEN <<LBRACE, RBRACE>>
    ELSE Display(v, rev)

\* the number of spaces of cs from index i on, up to the first other character
RECURSIVE SpaceRun(_, _)
SpaceRun(cs, i) == IF i <= Len(cs) /\ cs[i] = SPACE THEN 1 + SpaceRun(cs, i + 1) ELSE 0

\* every newline outside a literal is followed by exactly n spaces per level of
\* nesting of what stands on the line, a closing delimiter standing at the level
\* of its container; depth is the number of containers open at index i
RECURSIVE IndentedByDepth(_, _, _, _, _)
IndentedByDepth(cs, i, depth, in_string, n) ==
    IF i > Len(cs) THEN depth = 0
    ELSE LET c == cs[i]
         IN  IF in_string
             THEN IF c = BACKSLASH THEN IndentedByDepth(cs, i + 2, depth, TRUE, n)
                  ELSE IndentedByDepth(cs, i + 1, depth, c # QUOTE, n)
             ELSE IF c = NEWLINE
             THEN LET k == SpaceRun(cs, i + 1)
                      closing == i + 1 + k <= Len(cs) /\ cs[i + 1 + k] \in {RBRACKET, RBRACE}
                  IN  /\ k = n * (IF closing THEN depth - 1 ELSE depth)
                      /\ IndentedByDepth(cs, i + 1 + k, depth, FALSE, n)
             ELSE IF c \in {LBRACKET, LBRACE}
             THEN /\ i < Len(cs)
                  /\ cs[i + 1] \in {NEWLINE, RBRACKET, RBRACE}
                  /\ IndentedByDepth(cs, i + 1, depth + 1, FALSE, n)
             ELSE IF c \in {RBRACKET, RBRACE} THEN IndentedByDepth(cs, i + 1, depth - 1, FALSE, n)
             ELSE IndentedByDepth(cs, i + 1, depth, c = QUOTE, n)

\* C23: pretty-print layout: for every indent n a non-empty array or object at
\* nesting depth d renders as its opening delimiter, a newline, its entries each
\* after exactly (d+1)*n spaces and separated by ',' and a newline, a newline,
\* exactly d*n spaces and its closing delimiter; an empty array or object
\* renders as "[]" or "{}" with no newline, at any depth.
C23_PrettyLayout ==
    (source # NoValue /\ phase = "tokenize" /\ tcur = 0) =>
        /\ \A n \in 0..MaxIndent, rev \in BOOLEAN :
              /\ pretty_print(source, n, rev) = Layout(source, 0, n, rev)
              /\ IndentedByDepth(pretty_print(source, n, rev), 1, 0, FALSE, n)
        /\ \E n \in 0..MaxIndent, rev \in BOOLEAN :
              input = Utf8(Layout(source, 0, n, rev))

\* the pretty text, at the largest indent, of an array whose second element is a
\* non-empty object
C23_Witness ==
    /\ source # NoValue /\ phase = "tokenize" /\ tcur = 0
    /\ source.t = "Array" /\ Len(source.v) = 2
    /\ source.v[2].t = "Object" /\ DOMAIN source.v[2].v # {}
    /\ input = Utf8(pretty_print(source, MaxIndent, FALSE))

-----------------------------------------------------------------------------
(* Claims about the compact serialization, checked under SpecJson.          *)

\* the value itself and every value inside it
RECURSIVE Subvalues(_)
Subvalues(v) ==
    {v} \cup (IF v.t = "Array" THEN UNION {Subvalues(v.v[i]) : i \in 1..Len(v.v)}
              ELSE IF v.t = "Object" THEN UNION {Subvalues(v.v[k]) : k \in DOMAIN v.v}
              ELSE {})

\* the texts of q in order, one comma between neighbours and nothing else
RECURSIVE CommaJoined(_)
CommaJoined(q) ==
    IF Len(q) = 0 THEN <<>>
    ELSE IF Len(q) = 1 THEN q[1]
    ELSE CommaJoined(SubSeq(q, 1, Len(q) - 1)) \o <<COMMA>> \o q[Len(q)]

ArrayText(items, rev) ==
    <<LBRACKET>> \o CommaJoined([i \in 1..Len(items) |-> Display(items[i], rev)]) \o <<RBRACKET>>

\* C21: the compact serialization of an array is '[', the compact serializations
\* of its elements joined by a single ',' with no spaces, and ']', at every
\* nesting depth; the empty array serializes as "[]" and the empty object as "{}".
C21_ArrayIsCommaJoined ==
    source # NoValue =>
        /\ \A a \in Subvalues(source), rev \in BOOLEAN :
              /\ a.t = "Array" => Display(a, rev) = ArrayText(a.v, rev)
              /\ (a.t = "Array" /\ Len(a.v) = 0) => Display(a, rev) = <<LBRACKET, RBRACKET>>
              /\ (a.t = "Object" /\ DOMAIN a.v = {}) => Display(a, rev) = <<LBRACE, RBRACE>>
        /\ source.t = "Array" => \E rev \in BOOLEAN : input = Utf8(ArrayText(source.v, rev))

\* a serialized array of two elements whose second element is an array of two
C21_Witness ==
    /\ source # NoValue
    /\ source.t = "Array" /\ Len(source.v) = 2
    /\ source.v[2].t = "Array" /\ Len(source.v[2].v) = 2
    /\ input = Utf8(Display(source, FALSE))
    /\ result = "Ok"

-----------------------------------------------------------------------------
(* Claims about the Python-facing dumps, checked under SpecDumps.           *)

\* the texts of q in order, a comma and one space between neighbours
RECURSIVE CommaSpaceJoined(_)
CommaSpaceJoined(q) ==
    IF Len(q) = 0 THEN <<>>
    ELSE IF Len(q) = 1 THEN q[1]
    ELSE CommaSpaceJoined(SubSeq(q, 1, Len(q) - 1)) \o <<COMMA, SPACE>> \o q[Len(q)]

\* C22: dumps(obj) with indent omitted serializes a list by separating its
\* elements with a comma followed by one space: the text is '[', the texts of
\* the elements joined by ", ", and ']', so that [1, 2, 3] yields '[1, 2, 3]'.
C22_DumpsListCommaSpace ==
    (source # NoValue /\ source.t = "Array") =>
        LET obj == json_value_to_py(source)
        IN  \A rev \in BOOLEAN :
                dumps(obj, None, rev) =
                    <<LBRACKET>>
                    \o CommaSpaceJoined([i \in 1..Len(obj.v) |-> dumps(obj.v[i], None, rev)])
                    \o <<RBRACKET>>

====
